---- MODULE Spec2Model ----
(***************************************************************************)
(* Model of clsm_pytorch.py: the script's __main__ block (loading of the   *)
(* pickles), run() (model and dataset construction, the epoch loop with    *)
(* its training and validation phases, the running metrics and their       *)
(* reports) and save_checkpoint().                                         *)
(*                                                                         *)
(* Numbers.  Python floats are modelled as exact rationals <<n, d>> in     *)
(* lowest terms with d > 0.  int(len(train) * 0.8) and                     *)
(* int((len(train_dataset)/BATCH_SIZE) * 0.02) are evaluated by the code   *)
(* in double precision; for every len below 200000 and every batch size    *)
(* below 12 the double results equal (4*len) \div 5 and                    *)
(* len \div (50*BATCH_SIZE), which is how they are computed here.          *)
(*                                                                         *)
(* External collaborators.  cdssm.CDSSM is an opaque scoring function: a   *)
(* forward pass yields, for a batch of s samples, any number of correct    *)
(* predictions in 0..s and any loss in Losses (at most MaxWrong wrong      *)
(* predictions per training epoch), or, for the degenerate model that      *)
(* always predicts 1, as many correct predictions as the batch has         *)
(* positive labels.  The parameters are abstracted to the number of        *)
(* optimizer steps that produced them and the gradients the last step      *)
(* followed.  A DataLoader with shuffle=True                               *)
(* yields ceil(len/BATCH_SIZE) batches whose examples are drawn without    *)
(* replacement from its split; examples are told apart by their label      *)
(* only, so a split is the pair (size, number of negatives).  The labels   *)
(* constrain the accuracy of the degenerate model only, so the corpora     *)
(* with negative examples are run with the degenerate model and the opaque *)
(* model is run on the all-positive corpora.                               *)
(***************************************************************************)
EXTENDS Integers, Sequences, FiniteSets, TLC

\* ---------------------------------------------------------------- bounds
MaxN == 63          \* corpus sizes 0..MaxN
MaxBatch == 2       \* --batch-size in 1..MaxBatch
MaxEpochs == 3      \* --epochs is 0, 1 or MaxEpochs
MaxNeg == 2         \* at most MaxNeg negative examples in the corpus
MaxWrong == 1       \* opaque model: at most MaxWrong wrong predictions per training epoch
MaxLoss == 2        \* per-batch loss values 1..MaxLoss (abstract units)

\* the values of --epochs: no epoch, one epoch, several epochs (a run of fewer
\* epochs is a prefix of the run of MaxEpochs epochs)
Epochs == {0, 1, MaxEpochs}
Losses == 1..MaxLoss

\* ------------------------------------------------------------- rationals
RECURSIVE GCD(_, _)
GCD(a, b) == IF b = 0 THEN a ELSE GCD(b, a % b)

Abs(a) == IF a < 0 THEN -a ELSE a

\* n/d in lowest terms, d > 0
Norm(n, d) ==
    LET g == GCD(Abs(n), d) IN IF g = 0 THEN <<0, 1>> ELSE <<n \div g, d \div g>>

RZero == <<0, 1>>
RInt(k) == <<k, 1>>
RAdd(x, y) == Norm(x[1] * y[2] + y[1] * x[2], x[2] * y[2])
RDivInt(x, k) == Norm(x[1], x[2] * k)            \* k > 0
RLeq(x, y) == x[1] * y[2] <= y[1] * x[2]
RMax(x, y) == IF RLeq(y, x) THEN x ELSE y

Min(a, b) == IF a <= b THEN a ELSE b
Max(a, b) == IF a >= b THEN a ELSE b

\* ------------------------------------------------------------ the state
VARIABLES
    pc,                     \* position of the script
    error,                  \* the uncaught exception that ended the process, or "none"
    BATCH_SIZE, NUM_EPOCHS, \* args.batch_size, args.epochs
    args_sparse_evidences,  \* args.sparse_evidences
    corpus,                 \* train.pkl on disk: [n |-> examples, neg |-> negatives]
    degenerate,             \* TRUE: the scoring model always predicts 1
    train,                  \* the loaded list (as corpus), NoList before
    sparse_evidences,       \* "unset" | "None" | "loaded"
    claims_dict,            \* "unset" | "loaded"
    fs_evidence,            \* what opening evidence.pkl found: "unprobed" | "present" | "missing"
    model,                  \* "none" | "train" | "eval": not built, or its mode
    params,                 \* [steps, by]: optimizer steps applied, gradients of the last one
    grads,                  \* [state |-> "none" | "zero" | "set", epoch, num]: whose loss
    train_size,
    train_dataset,          \* [lo, hi, neg]: the slice train[lo:hi] and its negatives
    val_dataset,
    OUTPUT_FREQ,
    epoch,
    train_batch_num, val_batch_num,
    train_left, val_left,   \* what the two loaders have not yielded yet: [n, neg]
    inputs, val_inputs,     \* the loop variables: a batch, NoBatch while unbound
    loss, accuracy,         \* last computed loss tensor and accuracy
    mean_train_acc, train_running_loss, train_running_accuracy,
    val_running_loss, val_running_accuracy,
    best_accuracy, train_acc, is_best,
    checkpoints,            \* the torch.save calls made, in order
    \* history variables, read by the properties only
    h_window,               \* batches accumulated in the training sums since their reset
    h_report,               \* the last training report, NoReport before the first
    h_wrong,                \* wrong predictions of this training epoch
    h_fwd_params,           \* params used by the last forward pass
    h_train_end,            \* [epoch, params, grads, loss, inputs] when a training phase ended
    h_scored,               \* the batch scored by this epoch's last validation iteration
    h_val_losses,           \* loss values added to val_running_loss in this epoch
    h_acc                   \* train_acc of every completed epoch, in order

argVars == <<BATCH_SIZE, NUM_EPOCHS, args_sparse_evidences, corpus, degenerate>>
loadVars == <<train, sparse_evidences, claims_dict, fs_evidence>>
setupVars == <<model, params, grads, train_size, train_dataset, val_dataset,
               OUTPUT_FREQ, best_accuracy, checkpoints>>
loopVars == <<epoch, train_batch_num, val_batch_num, train_left, val_left,
              inputs, val_inputs, loss, accuracy, mean_train_acc,
              train_running_loss, train_running_accuracy, val_running_loss,
              val_running_accuracy, train_acc, is_best>>
histVars == <<h_window, h_report, h_wrong, h_fwd_params, h_train_end, h_scored,
              h_val_losses, h_acc>>
vars == <<pc, error, argVars, loadVars, setupVars, loopVars, histVars>>

\* values of names that are not bound yet
NoList == [n |-> -1, neg |-> 0]
NoDataset == [lo |-> 0, hi |-> 0, neg |-> 0]
NoBatch == [loader |-> "none", epoch |-> -1, num |-> -1, size |-> 0, pos |-> 0]
NoLoss == [item |-> 0, epoch |-> -1, num |-> -1]
NoGrads == [state |-> "none", epoch |-> -1, num |-> -1]
\* line 73: the parameters of the freshly constructed model
NoParams == [steps |-> 0, by |-> NoGrads]
NoReport == [epoch |-> -1, batch |-> -1, params |-> NoParams, loss |-> RZero, acc |-> RZero,
             sum_loss |-> 0, sum_acc |-> RZero, n |-> 0]
NoTrainEnd == [epoch |-> -1, params |-> NoParams, grads |-> NoGrads, loss |-> NoLoss,
               inputs |-> NoBatch]

\* ------------------------------------------------------------------ Init
\* parse_args() has run; nothing is loaded, run() has not been entered.
Init ==
    /\ pc = "load_train"
    /\ error = "none"
    /\ BATCH_SIZE \in 1..MaxBatch
    /\ NUM_EPOCHS \in Epochs
    /\ args_sparse_evidences \in BOOLEAN
    /\ corpus \in {[n |-> n, neg |-> k] : n \in 0..MaxN, k \in 0..MaxNeg}
    /\ corpus.neg <= corpus.n
    /\ degenerate \in BOOLEAN
    /\ (~degenerate => corpus.neg = 0)
    /\ train = NoList
    /\ sparse_evidences = "unset"
    /\ claims_dict = "unset"
    /\ fs_evidence = "unprobed"
    /\ model = "none"
    /\ params = NoParams
    /\ grads = NoGrads
    /\ train_size = 0
    /\ train_dataset = NoDataset
    /\ val_dataset = NoDataset
    /\ OUTPUT_FREQ = 0
    /\ epoch = 0
    /\ train_batch_num = 0
    /\ val_batch_num = 0
    /\ train_left = [n |-> 0, neg |-> 0]
    /\ val_left = [n |-> 0, neg |-> 0]
    /\ inputs = NoBatch
    /\ val_inputs = NoBatch
    /\ loss = NoLoss
    /\ accuracy = RZero
    /\ mean_train_acc = RZero
    /\ train_running_loss = 0
    /\ train_running_accuracy = RZero
    /\ val_running_loss = 0
    /\ val_running_accuracy = RZero
    /\ best_accuracy = RZero
    /\ train_acc = RZero
    /\ is_best = FALSE
    /\ checkpoints = <<>>
    /\ h_window = 0
    /\ h_report = NoReport
    /\ h_wrong = 0
    /\ h_fwd_params = NoParams
    /\ h_train_end = NoTrainEnd
    /\ h_scored = NoBatch
    /\ h_val_losses = {}
    /\ h_acc = <<>>

\* ---------------------------------------------------------------- __main__
\* An uncaught exception ends the process: nothing else changes.
Raise(e) ==
    /\ pc' = "failed"
    /\ error' = e

\* lines 225-226: train = joblib.load(os.path.join(args.data, "train.pkl"))
LoadTrain ==
    /\ pc = "load_train"
    /\ \E exists \in BOOLEAN :
        IF exists
        THEN /\ train' = corpus
             /\ pc' = "load_evidence"
             /\ UNCHANGED error
        ELSE /\ Raise("FileNotFoundError: train.pkl")
             /\ UNCHANGED train
    /\ UNCHANGED <<argVars, sparse_evidences, claims_dict, fs_evidence>>
    /\ UNCHANGED <<setupVars, loopVars, histVars>>

\* mutant of LoadEvidenceMissing: the failed load is swallowed and the script goes on
\* without sparse evidences
LoadEvidenceMissingCaught ==
    /\ sparse_evidences' = "None"
    /\ pc' = "load_claims"
    /\ UNCHANGED error

\* line 231: joblib.load(fname) of a file that does not exist: the exception is
\* raised outside any try block
LoadEvidenceMissing ==
    /\ Raise("FileNotFoundError: evidence.pkl")
    /\ UNCHANGED sparse_evidences

\* lines 228-233: the sparse evidences are loaded only under --sparse-evidences
LoadEvidence ==
    /\ pc = "load_evidence"
    /\ IF args_sparse_evidences
       THEN \E exists \in BOOLEAN :
              IF exists
              THEN /\ sparse_evidences' = "loaded"
                   /\ fs_evidence' = "present"
                   /\ pc' = "load_claims"
                   /\ UNCHANGED error
              ELSE /\ fs_evidence' = "missing"
                   /\ LoadEvidenceMissing
       ELSE /\ sparse_evidences' = "None"
            /\ pc' = "load_claims"
            /\ UNCHANGED <<error, fs_evidence>>
    /\ UNCHANGED <<argVars, train, claims_dict>>
    /\ UNCHANGED <<setupVars, loopVars, histVars>>

\* lines 235-239: claims_dict is not bound in the script, the bare except catches
\* the NameError and loads new_claims_dict.pkl; a failure of that load is uncaught
LoadClaims ==
    /\ pc = "load_claims"
    /\ \E exists \in BOOLEAN :
        IF exists
        THEN /\ claims_dict' = "loaded"
             /\ pc' = "run"
             /\ UNCHANGED error
        ELSE /\ Raise("FileNotFoundError: new_claims_dict.pkl")
             /\ UNCHANGED claims_dict
    /\ UNCHANGED <<argVars, train, sparse_evidences, fs_evidence>>
    /\ UNCHANGED <<setupVars, loopVars, histVars>>


\* -------------------------------------------------------------- run: setup
\* line 81: train_size = int(len(train) * 0.8)
TrainSize(n) == (4 * n) \div 5

\* line 83: train[:train_size], as the half-open index range [lo, hi)
TrainSlice(n) == [lo |-> 0, hi |-> TrainSize(n)]

\* mutant of ValSlice: train[train_size + 1:]
ValSliceOffByOne(n) == [lo |-> TrainSize(n) + 1, hi |-> Max(n, TrainSize(n) + 1)]

\* line 84: train[train_size:]
ValSlice(n) == [lo |-> TrainSize(n), hi |-> n]

\* the 0-based indices of the list that a slice holds
Indices(sl) == sl.lo .. (sl.hi - 1)

\* lines 83-84: the number of examples of a slice of the list
SliceLen(sl) == sl.hi - sl.lo

\* len(WikiDataset): one item per example of the slice it was built from
DatasetLen(ds) == SliceLen(ds)

\* len(DataLoader): ceil(len(dataset) / batch_size), drop_last is off
LoaderLen(ds, b) == (DatasetLen(ds) + b - 1) \div b

\* line 92: OUTPUT_FREQ = int((len(train_dataset)/BATCH_SIZE)*0.02)
OutputFreq(len, b) == len \div (50 * b)

dataVars == <<train_size, train_dataset, val_dataset, OUTPUT_FREQ>>
sumVars == <<mean_train_acc, train_running_loss, train_running_accuracy,
             val_running_loss, val_running_accuracy>>

\* lines 62-107: the model, the two datasets and loaders, OUTPUT_FREQ, best_accuracy.
\* The negatives of the list fall on either side of the split boundary.
RunSetup ==
    /\ pc = "run"
    /\ model' = "train"
    /\ train_size' = TrainSize(train.n)
    /\ \E k \in Max(0, train.neg - (train.n - TrainSize(train.n)))
                  .. Min(train.neg, TrainSize(train.n)) :
        /\ train_dataset' = [lo |-> TrainSlice(train.n).lo,
                             hi |-> TrainSlice(train.n).hi, neg |-> k]
        /\ val_dataset' = [lo |-> ValSlice(train.n).lo,
                           hi |-> ValSlice(train.n).hi, neg |-> train.neg - k]
    /\ OUTPUT_FREQ' = OutputFreq(DatasetLen(train_dataset'), BATCH_SIZE)
    /\ best_accuracy' = RZero
    /\ pc' = "epoch"
    /\ UNCHANGED <<error, argVars, loadVars, params, grads, checkpoints>>
    /\ UNCHANGED <<loopVars, histVars>>

\* ------------------------------------------------------- run: training phase
\* lines 109-118: the next epoch of range(NUM_EPOCHS): the sums are reset, the
\* model is put in training mode and the training loader starts a new pass
EpochStart ==
    /\ pc = "epoch"
    /\ epoch < NUM_EPOCHS
    /\ mean_train_acc' = RZero
    /\ train_running_loss' = 0
    /\ train_running_accuracy' = RZero
    /\ val_running_loss' = 0
    /\ val_running_accuracy' = RZero
    /\ model' = "train"
    /\ train_left' = [n |-> DatasetLen(train_dataset), neg |-> train_dataset.neg]
    /\ h_window' = 0
    /\ h_wrong' = 0
    /\ h_val_losses' = {}
    /\ h_scored' = NoBatch
    /\ pc' = "train"
    /\ UNCHANGED <<error, argVars, loadVars, params, grads, dataVars,
                   best_accuracy, checkpoints>>
    /\ UNCHANGED <<epoch, train_batch_num, val_batch_num, val_left, inputs,
                   val_inputs, loss, accuracy, train_acc, is_best>>
    /\ UNCHANGED <<h_report, h_fwd_params, h_train_end, h_acc>>

\* the batches a loader can yield next from what it has left: min(BATCH_SIZE, left)
\* examples, k of them negative
NextBatches(left, b, ldr, e, num) ==
    LET s == Min(b, left.n) IN
    {[loader |-> ldr, epoch |-> e, num |-> num, size |-> s, pos |-> s - k] :
        k \in Max(0, s - (left.n - left.neg)) .. Min(s, left.neg)}

Take(left, batch) ==
    [n |-> left.n - batch.size, neg |-> left.neg - (batch.size - batch.pos)]

\* lines 128-140: the numbers of correct predictions model(claims, evidences) can
\* reach on a batch; the degenerate model predicts 1 for every sample
Correct(batch, budget) ==
    IF degenerate THEN {batch.pos}
    ELSE {c \in 0..batch.size : batch.size - c <= budget}

\* line 165: optimizer.zero_grad(): every gradient becomes zero
ZeroGrad(g) == [state |-> "zero", epoch |-> -1, num |-> -1]

\* line 166: loss.backward(): the gradients of the loss are added to the gradients
Backward(g, l) ==
    IF g.state = "zero" THEN [state |-> "set", epoch |-> l.epoch, num |-> l.num]
    ELSE [state |-> "mixed", epoch |-> l.epoch, num |-> l.num]

\* line 167: optimizer.step(): one update of the parameters along the gradients
OptimizerStep(p, g) == [steps |-> p.steps + 1, by |-> g]

\* mutant of Update: the gradients are not zeroed before the backward pass
UpdateNoZeroGrad(p, g, l) ==
    [grads |-> Backward(g, l), params |-> OptimizerStep(p, Backward(g, l))]

\* lines 165-167: the parameter update that ends the body of the training loop
Update(p, g, l) ==
    [grads |-> Backward(ZeroGrad(g), l),
     params |-> OptimizerStep(p, Backward(ZeroGrad(g), l))]

\* line 145: (train_batch_num % OUTPUT_FREQ)==0 and train_batch_num>0, for OUTPUT_FREQ > 0
ReportDue(i, freq) == (i % freq) = 0 /\ i > 0

\* lines 118-167: one iteration of the training loop: the loader yields the next
\* batch; forward pass, loss, accuracy, their addition to the running sums; the
\* windowed report with the reset of the sums, whose modulo is evaluated first and
\* raises when OUTPUT_FREQ is 0; then the parameter update
TrainBatch ==
    /\ pc = "train"
    /\ train_left.n > 0
    /\ \E batch \in NextBatches(train_left, BATCH_SIZE, "train", epoch,
                                (DatasetLen(train_dataset) - train_left.n) \div BATCH_SIZE) :
       \E c \in Correct(batch, MaxWrong - h_wrong), l \in Losses :
        LET sum_acc == RAdd(train_running_accuracy, Norm(c, batch.size))
            sum_loss == train_running_loss + l
        IN
        /\ train_batch_num' = batch.num
        /\ inputs' = batch
        /\ train_left' = Take(train_left, batch)
        /\ loss' = [item |-> l, epoch |-> epoch, num |-> batch.num]
        /\ IF OUTPUT_FREQ = 0
           THEN UNCHANGED <<grads, params>>
           ELSE /\ grads' = Update(params, grads, loss').grads
                /\ params' = Update(params, grads, loss').params
        /\ accuracy' = Norm(c, batch.size)
        /\ mean_train_acc' = RAdd(mean_train_acc, Norm(c, batch.size))
        /\ h_wrong' = h_wrong + (batch.size - c)
        /\ IF OUTPUT_FREQ = 0
           THEN /\ Raise("ZeroDivisionError: train_batch_num % OUTPUT_FREQ")
                /\ train_running_loss' = sum_loss
                /\ train_running_accuracy' = sum_acc
                /\ h_window' = h_window + 1
                /\ UNCHANGED h_report
           ELSE IF ReportDue(batch.num, OUTPUT_FREQ)
           THEN /\ h_report' = [epoch |-> epoch, batch |-> batch.num, params |-> params,
                                loss |-> RDivInt(RInt(sum_loss), OUTPUT_FREQ),
                                acc |-> RDivInt(sum_acc, OUTPUT_FREQ),
                                sum_loss |-> sum_loss, sum_acc |-> sum_acc,
                                n |-> h_window + 1]
                /\ train_running_loss' = 0
                /\ train_running_accuracy' = RZero
                /\ h_window' = 0
                /\ UNCHANGED <<pc, error>>
           ELSE /\ train_running_loss' = sum_loss
                /\ train_running_accuracy' = sum_acc
                /\ h_window' = h_window + 1
                /\ UNCHANGED <<pc, error, h_report>>
    /\ h_fwd_params' = params
    /\ UNCHANGED <<argVars, loadVars, model, dataVars, best_accuracy, checkpoints>>
    /\ UNCHANGED <<epoch, val_batch_num, val_left, val_inputs, val_running_loss,
                   val_running_accuracy, train_acc, is_best>>
    /\ UNCHANGED <<h_train_end, h_scored, h_val_losses, h_acc>>

\* lines 169-171: the training loader is exhausted; model.eval(), and the
\* validation loader starts its pass
TrainEnd ==
    /\ pc = "train"
    /\ train_left.n = 0
    /\ model' = "eval"
    /\ val_left' = [n |-> DatasetLen(val_dataset), neg |-> val_dataset.neg]
    /\ h_train_end' = [epoch |-> epoch, params |-> params, grads |-> grads,
                       loss |-> loss, inputs |-> inputs]
    /\ pc' = "val"
    /\ UNCHANGED <<error, argVars, loadVars, params, grads, dataVars,
                   best_accuracy, checkpoints>>
    /\ UNCHANGED <<epoch, train_batch_num, val_batch_num, train_left, inputs,
                   val_inputs, loss, accuracy, sumVars, train_acc, is_best>>
    /\ UNCHANGED <<h_window, h_report, h_wrong, h_fwd_params, h_scored,
                   h_val_losses, h_acc>>

\* ----------------------------------------------------- run: validation phase
\* mutant of ValScored: claims, evidences, labels = val_inputs
ValScoredYielded(train_inputs, yielded) == yielded

\* line 172: claims, evidences, labels = inputs: the training loop's variable,
\* not the batch the validation loader yielded
ValScored(train_inputs, yielded) == train_inputs

\* line 192: val_running_loss += loss.item(): no loss is computed in the
\* validation loop, the name still refers to the training loop's last loss
ValLossItem(train_loss) == train_loss.item

\* mutant of ValBatch: the training loop's update calls are repeated in the
\* validation loop
ValBatchUpdating ==
    /\ pc = "val"
    /\ val_left.n > 0
    /\ \E batch \in NextBatches(val_left, BATCH_SIZE, "val", epoch,
                                (DatasetLen(val_dataset) - val_left.n) \div BATCH_SIZE) :
        /\ val_batch_num' = batch.num
        /\ val_inputs' = batch
        /\ val_left' = Take(val_left, batch)
        /\ IF inputs = NoBatch
           THEN /\ Raise("NameError: inputs")
                /\ UNCHANGED <<accuracy, val_running_accuracy, val_running_loss,
                               h_scored, h_val_losses, h_fwd_params, grads, params>>
           ELSE \E c \in Correct(ValScored(inputs, batch), ValScored(inputs, batch).size) :
                LET sum_acc == RAdd(val_running_accuracy,
                                    Norm(c, ValScored(inputs, batch).size))
                    sum_loss == val_running_loss + ValLossItem(loss)
                IN
                /\ accuracy' = Norm(c, ValScored(inputs, batch).size)
                /\ h_scored' = ValScored(inputs, batch)
                /\ h_val_losses' = h_val_losses \cup {ValLossItem(loss)}
                /\ h_fwd_params' = params
                /\ grads' = Backward(ZeroGrad(grads), loss)
                /\ params' = OptimizerStep(params, grads')
                /\ IF OUTPUT_FREQ = 0
                   THEN /\ Raise("ZeroDivisionError: val_batch_num % OUTPUT_FREQ")
                        /\ val_running_loss' = sum_loss
                        /\ val_running_accuracy' = sum_acc
                   ELSE IF ReportDue(batch.num, OUTPUT_FREQ)
                   THEN /\ val_running_loss' = 0
                        /\ val_running_accuracy' = RZero
                        /\ UNCHANGED <<pc, error>>
                   ELSE /\ val_running_loss' = sum_loss
                        /\ val_running_accuracy' = sum_acc
                        /\ UNCHANGED <<pc, error>>
    /\ UNCHANGED <<argVars, loadVars, model, dataVars, best_accuracy, checkpoints>>
    /\ UNCHANGED <<epoch, train_batch_num, train_left, inputs, loss, mean_train_acc,
                   train_running_loss, train_running_accuracy, train_acc, is_best>>
    /\ UNCHANGED <<h_window, h_report, h_wrong, h_train_end, h_acc>>

\* lines 171-211: the validation loader yields a batch; forward pass in eval mode
\* on the scored batch, accuracy, addition to the validation sums; then the
\* validation report (the metrics and the parameters with their gradients go to
\* the logging sinks) with the reset of the validation sums
ValBatch ==
    /\ pc = "val"
    /\ val_left.n > 0
    /\ \E batch \in NextBatches(val_left, BATCH_SIZE, "val", epoch,
                                (DatasetLen(val_dataset) - val_left.n) \div BATCH_SIZE) :
        /\ val_batch_num' = batch.num
        /\ val_inputs' = batch
        /\ val_left' = Take(val_left, batch)
        /\ IF inputs = NoBatch
           THEN /\ Raise("NameError: inputs")
                /\ UNCHANGED <<accuracy, val_running_accuracy, val_running_loss,
                               h_scored, h_val_losses, h_fwd_params>>
           ELSE \E c \in Correct(ValScored(inputs, batch), ValScored(inputs, batch).size) :
                LET sum_acc == RAdd(val_running_accuracy,
                                    Norm(c, ValScored(inputs, batch).size))
                    sum_loss == val_running_loss + ValLossItem(loss)
                IN
                /\ accuracy' = Norm(c, ValScored(inputs, batch).size)
                /\ h_scored' = ValScored(inputs, batch)
                /\ h_val_losses' = h_val_losses \cup {ValLossItem(loss)}
                /\ h_fwd_params' = params
                /\ IF OUTPUT_FREQ = 0
                   THEN /\ Raise("ZeroDivisionError: val_batch_num % OUTPUT_FREQ")
                        /\ val_running_loss' = sum_loss
                        /\ val_running_accuracy' = sum_acc
                   ELSE IF ReportDue(batch.num, OUTPUT_FREQ)
                   THEN /\ val_running_loss' = 0
                        /\ val_running_accuracy' = RZero
                        /\ UNCHANGED <<pc, error>>
                   ELSE /\ val_running_loss' = sum_loss
                        /\ val_running_accuracy' = sum_acc
                        /\ UNCHANGED <<pc, error>>
    /\ UNCHANGED <<argVars, loadVars, setupVars>>
    /\ UNCHANGED <<epoch, train_batch_num, train_left, inputs, loss, mean_train_acc,
                   train_running_loss, train_running_accuracy, train_acc, is_best>>
    /\ UNCHANGED <<h_window, h_report, h_wrong, h_train_end, h_acc>>

\* ------------------------------------------------------ run: checkpoint policy
\* mutant of NewBest: best_accuracy = train_acc
NewBestLatest(acc, best) == acc

\* line 215: best_accuracy = max(train_acc, best_accuracy)
NewBest(acc, best) == RMax(acc, best)

\* mutant of IsBest: train_acc > best_accuracy
IsBestStrict(acc, best) == ~RLeq(acc, best)

\* line 216: is_best = bool(train_acc >= best_accuracy), against the updated best
IsBest(acc, best) == RLeq(best, acc)

\* lines 53-59: save_checkpoint: torch.save(state, filename) only if is_best
SaveCheckpoint(saved, state, best, filename) ==
    IF best THEN Append(saved, [state |-> state, filename |-> filename]) ELSE saved

\* lines 213-218: the validation loader is exhausted; the epoch's mean training
\* accuracy, the best accuracy, and the checkpoint decision
EpochEnd ==
    /\ pc = "val"
    /\ val_left.n = 0
    /\ IF LoaderLen(train_dataset, BATCH_SIZE) = 0
       THEN /\ Raise("ZeroDivisionError: mean_train_acc / len(train_dataloader)")
            /\ UNCHANGED <<train_acc, best_accuracy, is_best, checkpoints, h_acc, epoch>>
       ELSE /\ train_acc' = RDivInt(mean_train_acc, LoaderLen(train_dataset, BATCH_SIZE))
            /\ best_accuracy' = NewBest(train_acc', best_accuracy)
            /\ is_best' = IsBest(train_acc', best_accuracy')
            /\ checkpoints' = SaveCheckpoint(checkpoints,
                                  [epoch |-> epoch, state_dict |-> params,
                                   best_accuracy |-> best_accuracy'],
                                  is_best', train_acc')
            /\ h_acc' = Append(h_acc, train_acc')
            /\ epoch' = epoch + 1
            /\ pc' = "epoch"
            /\ UNCHANGED error
    /\ UNCHANGED <<argVars, loadVars, model, params, grads, dataVars>>
    /\ UNCHANGED <<train_batch_num, val_batch_num, train_left, val_left, inputs,
                   val_inputs, loss, accuracy, sumVars>>
    /\ UNCHANGED <<h_window, h_report, h_wrong, h_fwd_params, h_train_end,
                   h_scored, h_val_losses>>

\* line 109: range(NUM_EPOCHS) is exhausted; run() returns and the script ends
Finish ==
    /\ pc = "epoch"
    /\ epoch >= NUM_EPOCHS
    /\ pc' = "done"
    /\ UNCHANGED <<error, argVars, loadVars, setupVars, loopVars, histVars>>

\* ------------------------------------------------------------ specification
Next ==
    \/ LoadTrain
    \/ LoadEvidence
    \/ LoadClaims
    \/ RunSetup
    \/ EpochStart
    \/ TrainBatch
    \/ TrainEnd
    \/ ValBatch
    \/ EpochEnd
    \/ Finish

Spec == Init /\ [][Next]_vars

\* ================================================================ properties
NumTrainBatches == LoaderLen(train_dataset, BATCH_SIZE)
ROne == RInt(1)

\* the greatest mean training accuracy of the epochs before the e-th (1-based),
\* starting from the initial best_accuracy 0.0
RECURSIVE PriorMax(_)
PriorMax(e) == IF e <= 1 THEN RZero ELSE RMax(PriorMax(e - 1), h_acc[e - 1])

\* a torch.save call was made at the end of the e-th epoch (1-based)
WrittenAt(e) == \E i \in 1..Len(checkpoints) : checkpoints[i].state.epoch = e - 1

\* C1: for every completed epoch, a checkpoint was written at its end if and only
\* if its mean training accuracy is >= the maximum mean training accuracy of all
\* prior epochs; nothing else is persisted (at most one write per epoch, and only
\* for completed epochs).
C1_CheckpointIffBest ==
    /\ \A e \in 1..Len(h_acc) : WrittenAt(e) <=> RLeq(PriorMax(e), h_acc[e])
    /\ \A i \in 1..Len(checkpoints) : checkpoints[i].state.epoch + 1 \in 1..Len(h_acc)
    /\ \A i, j \in 1..Len(checkpoints) :
          checkpoints[i].state.epoch = checkpoints[j].state.epoch => i = j

\* three epochs ran: the second wrote nothing, the third wrote a checkpoint
C1_Witness ==
    /\ Len(h_acc) = 3
    /\ ~WrittenAt(2)
    /\ WrittenAt(3)
    /\ ~RLeq(h_acc[1], h_acc[2])

\* C2: during the validation phase no backward pass and no optimizer step happen:
\* in every state of the validation phase the parameters and the gradients are
\* those the epoch's training phase ended with.
C2_ValidationLeavesParams ==
    pc = "val" =>
        /\ h_train_end.epoch = epoch
        /\ params = h_train_end.params
        /\ grads = h_train_end.grads
        /\ model = "eval"

\* the validation phase has ended after several validation batches
C2_Witness ==
    /\ pc = "val"
    /\ val_left.n = 0
    /\ val_batch_num >= 2
    /\ h_scored # NoBatch
    /\ params = h_train_end.params
    /\ params.steps > 0

\* C3: every validation iteration scores the last batch of the epoch's training
\* loop, never the batch the validation loader yielded, and adds the loss of that
\* last training batch; so all validation iterations of an epoch add one value.
C3_ValidationScoresLastTrainBatch ==
    /\ (pc = "val" /\ h_scored # NoBatch) =>
          /\ h_scored = h_train_end.inputs
          /\ h_scored.loader = "train"
          /\ h_scored.epoch = epoch
          /\ h_scored.num = NumTrainBatches - 1
          /\ h_scored # val_inputs
          /\ val_inputs.loader = "val" /\ val_inputs.epoch = epoch
          /\ loss = h_train_end.loss
          /\ loss.epoch = epoch /\ loss.num = NumTrainBatches - 1
          /\ h_val_losses = {h_train_end.loss.item}
    /\ pc = "val" => Cardinality(h_val_losses) <= 1

\* a later validation iteration has scored a training batch whose labels differ
\* from those of the batch the validation loader yielded
C3_Witness ==
    /\ pc = "val"
    /\ val_batch_num >= 2
    /\ h_scored.loader = "train"
    /\ h_scored.pos # val_inputs.pos
    /\ h_val_losses # {}

\* the batches the training loader has yielded in this epoch
Yielded == (DatasetLen(train_dataset) - train_left.n + BATCH_SIZE - 1) \div BATCH_SIZE

\* the training report of the current batch has been emitted
ReportedNow == h_report.epoch = epoch /\ h_report.batch = train_batch_num

\* C4: a training report is emitted at batch i exactly when i > 0 and
\* i mod OUTPUT_FREQ = 0; its mean loss and mean accuracy are the arithmetic means
\* of the per-batch values accumulated since the previous reset, so the mean
\* accuracy lies in [0,1]; the running sums are zero right after the report.
C4_ReportIsWindowMean ==
    /\ (pc = "train" /\ Yielded > 0) =>
          (ReportedNow <=> (train_batch_num > 0 /\ train_batch_num % OUTPUT_FREQ = 0))
    /\ h_report # NoReport =>
          /\ h_report.acc = RDivInt(h_report.sum_acc, h_report.n)
          /\ h_report.loss = RDivInt(RInt(h_report.sum_loss), h_report.n)
          /\ RLeq(RZero, h_report.acc) /\ RLeq(h_report.acc, ROne)
    /\ (pc = "train" /\ Yielded > 0 /\ ReportedNow) =>
          (train_running_loss = 0 /\ train_running_accuracy = RZero)

\* C5: once run() has set it, OUTPUT_FREQ is floor(len(train_dataset)/batch_size
\* * 0.02), and it is strictly positive for every training set larger than
\* batch-size, so that the modulo of line 145 never divides by zero.
C5_OutputFreqPositive ==
    model # "none" =>
        /\ 50 * BATCH_SIZE * OUTPUT_FREQ <= DatasetLen(train_dataset)
        /\ DatasetLen(train_dataset) < 50 * BATCH_SIZE * (OUTPUT_FREQ + 1)
        /\ DatasetLen(train_dataset) > BATCH_SIZE =>
              /\ OUTPUT_FREQ > 0
              /\ error # "ZeroDivisionError: train_batch_num % OUTPUT_FREQ"

\* C6: best_accuracy never decreases; it changes only at the end of an epoch whose
\* mean training accuracy is >= the previous best; every checkpoint records a
\* best_accuracy equal to its epoch's mean training accuracy and >= the value
\* recorded by every earlier checkpoint.
C6_BestAccuracyMonotone ==
    /\ [][/\ RLeq(best_accuracy, best_accuracy')
          /\ best_accuracy' # best_accuracy =>
                (pc = "val" /\ pc' = "epoch" /\ RLeq(best_accuracy, train_acc'))]_vars
    /\ [](\A i \in 1..Len(checkpoints) :
            /\ checkpoints[i].state.best_accuracy = h_acc[checkpoints[i].state.epoch + 1]
            /\ checkpoints[i].filename = h_acc[checkpoints[i].state.epoch + 1]
            /\ \A j \in 1..(i - 1) :
                  RLeq(checkpoints[j].state.best_accuracy,
                       checkpoints[i].state.best_accuracy))

\* two checkpoints were written, the later with a strictly greater accuracy, and
\* an epoch in between or after fell short of the best
C6_Witness ==
    /\ Len(checkpoints) >= 2
    /\ ~RLeq(checkpoints[2].state.best_accuracy, checkpoints[1].state.best_accuracy)
    /\ Len(h_acc) = 3
    /\ ~RLeq(best_accuracy, h_acc[3])

\* C7: the training split is the first floor(0.8*N) examples of the list and the
\* validation split the remaining ones: disjoint, covering the list in order,
\* sizes summing to N.
C7_SplitPartitionsCorpus ==
    model # "none" =>
        LET tr == Indices(train_dataset)
            va == Indices(val_dataset)
        IN
        /\ tr = 0..(SliceLen(train_dataset) - 1)
        /\ 5 * SliceLen(train_dataset) <= 4 * train.n
        /\ 4 * train.n < 5 * (SliceLen(train_dataset) + 1)
        /\ train_size = SliceLen(train_dataset)
        /\ tr \cap va = {}
        /\ tr \cup va = 0..(train.n - 1)
        /\ \A j \in va : j >= SliceLen(train_dataset)
        /\ Cardinality(tr) + Cardinality(va) = train.n
        /\ train_dataset.neg + val_dataset.neg = train.neg

\* a list whose size is no multiple of 5 has been split
C7_Witness ==
    /\ model # "none"
    /\ train.n = 63
    /\ Indices(train_dataset) = 0..49
    /\ Indices(val_dataset) = 50..62

\* the scenario of C8, once run() has been entered
Scenario ==
    /\ model # "none"
    /\ train.n = 10 /\ train.neg = 2
    /\ degenerate
    /\ NUM_EPOCHS = 1

\* C8: with 10 examples, 8 positive and 2 negative, and the model that always
\* predicts 1, the run of one epoch ends having reached the checkpoint decision
\* with a mean training accuracy of 0.8.
C8_ScenarioAccuracy ==
    (Scenario /\ pc \in {"done", "failed"}) =>
        /\ pc = "done"
        /\ Len(h_acc) = 1
        /\ h_acc[1] = <<4, 5>>

\* C9: with --sparse-evidences set and no evidence.pkl, the script fails with the
\* file-not-found error before run() is entered: no model, no epoch, no optimizer
\* step, no checkpoint; the failure is final (not caught, not retried): in every
\* state after the missing file was found the script is in that failure.
C9_MissingEvidenceFailsAtStartup ==
    fs_evidence = "missing" =>
        /\ args_sparse_evidences
        /\ pc = "failed"
        /\ error = "FileNotFoundError: evidence.pkl"
        /\ sparse_evidences = "unset"
        /\ model = "none"
        /\ train_dataset = NoDataset
        /\ epoch = 0 /\ h_acc = <<>>
        /\ params = NoParams /\ grads = NoGrads
        /\ checkpoints = <<>>

\* the list was loaded, the evidences were asked for and evidence.pkl was missing
C9_Witness ==
    /\ fs_evidence = "missing"
    /\ pc = "failed"
    /\ args_sparse_evidences
    /\ train = corpus
    /\ corpus.n >= 63

====
